---- MODULE Spec2Model ----
(***************************************************************************)
(* Model of the coffee-survey dashboard (Dashboard Eda/dashboardedafinal.py)*)
(* : the loader, the filter loop, the safe accessors, the quality          *)
(* validator, the memoized regression and the script run that strings them  *)
(* together.                                                                *)
(*                                                                         *)
(* Python values are represented as follows.                               *)
(*   Optional value      <<>> for None / a null cell, <<v>> for a value v  *)
(*   float               an exact fraction <<num, den>>, den > 0, reduced  *)
(*   DataFrame           [cols |-> set of column names,                    *)
(*                        rows |-> sequence of records of Optional cells]  *)
(***************************************************************************)
EXTENDS Integers, Sequences, FiniteSets, TLC

\* ------------------------------------------------------------------ values
None == <<>>
Some(v) == <<v>>
\* a null cell of a DataFrame
NA == <<>>
notna(c) == c # NA
\* the float nan, as 0/0
NaN == <<0, 0>>

RECURSIVE GCD(_, _)
GCD(a, b) == IF b = 0 THEN a ELSE GCD(b, a % b)

Abs(a) == IF a < 0 THEN -a ELSE a

\* the float n/d as a reduced fraction with a positive denominator
Frac(n, d) ==
    LET g == GCD(Abs(n), Abs(d))
        s == IF d < 0 THEN -1 ELSE 1
    IN  <<(s * n) \div g, (s * d) \div g>>

Zero == <<0, 1>>
FAdd(p, q) == Frac(p[1] * q[2] + q[1] * p[2], p[2] * q[2])
FSub(p, q) == Frac(p[1] * q[2] - q[1] * p[2], p[2] * q[2])
FMul(p, q) == Frac(p[1] * q[1], p[2] * q[2])
FInt(n) == <<n, 1>>
FLeq(p, q) == p[1] * q[2] <= q[1] * p[2]

\* np.sqrt of a non-negative float, kept exact as the radicand
sqrt(q) == [radicand |-> q]

RECURSIVE SumSeq(_)
SumSeq(s) == IF s = <<>> THEN 0 ELSE Head(s) + SumSeq(Tail(s))

RECURSIVE SelectIdx(_, _, _)
\* the indices i of 1..n, ascending, for which Keep[i]
SelectIdx(n, Keep, i) ==
    IF i > n THEN <<>>
    ELSE IF Keep[i] THEN <<i>> \o SelectIdx(n, Keep, i + 1)
         ELSE SelectIdx(n, Keep, i + 1)

\* ---------------------------------------------------------------- columns
CatCols == {"makna_ngopi", "cara_dapat_kopi", "efek_kopi"}
NumCols == {"fokus_num", "gelas_num", "pengeluaran_num", "durasi_num"}
RawCols == CatCols \cup NumCols
AllCols == RawCols \cup {"efek_kopi_num"}

len(df) == Len(df.rows)

\* df[col].dropna() as a sequence of values
dropna(df, col) ==
    LET keep == [i \in 1..len(df) |-> notna(df.rows[i][col])]
        idx == SelectIdx(len(df), keep, 1)
    IN  [k \in 1..Len(idx) |-> df.rows[idx[k]][col][1]]

\* df[mask]: the rows whose mask entry is true, in order
BoolIndex(df, mask) ==
    LET idx == SelectIdx(len(df), mask, 1)
    IN  [cols |-> df.cols, rows |-> [k \in 1..Len(idx) |-> df.rows[idx[k]]]]

\* ----------------------------------------------------------------- loader
efek_mapping_mut_dup ==
    [label \in {"Lebih fokus", "Lebih semangat", "Tahan ngantuk", "Biasa aja", "Jadi cemas"} |->
        CASE label = "Lebih fokus" -> 3
          [] label = "Lebih semangat" -> 2
          [] label = "Tahan ngantuk" -> 2
          [] label = "Biasa aja" -> 0
          [] label = "Jadi cemas" -> -1]

efek_mapping ==
    [label \in {"Lebih fokus", "Lebih semangat", "Tahan ngantuk", "Biasa aja", "Jadi cemas"} |->
        CASE label = "Lebih fokus" -> 3
          [] label = "Lebih semangat" -> 2
          [] label = "Tahan ngantuk" -> 1
          [] label = "Biasa aja" -> 0
          [] label = "Jadi cemas" -> -1]

\* Series.map(dict): a key of the dict gives its value, anything else a null
MapCell(cell, mapping) ==
    IF notna(cell) /\ cell[1] \in DOMAIN mapping THEN Some(mapping[cell[1]]) ELSE NA

\* df['efek_kopi_num'] = df['efek_kopi'].map(efek_mapping)
WithEfekNum(raw) ==
    [cols |-> raw.cols \cup {"efek_kopi_num"},
     rows |-> [i \in 1..len(raw) |->
                 [raw.rows[i] EXCEPT !["efek_kopi_num"] = MapCell(raw.rows[i]["efek_kopi"], efek_mapping)]]]

MsgNotFound == "File 'kuesioner_ngopi_bersih.csv' tidak ditemukan!"
MsgOther(e) == "Error loading data: " \o e

\* The body of load_data for a file on disk that is
\*   [kind |-> "missing"]                    no such file
\*   [kind |-> "unreadable", detail |-> e]   read_csv raises another exception
\*   [kind |-> "csv", frame |-> raw]         a parsable table
load_data_mut_partial(f) ==
    CASE f.kind = "missing" -> [df |-> None, error_msg |-> Some(MsgNotFound)]
      [] f.kind = "unreadable" -> [df |-> None, error_msg |-> Some(MsgOther(f.detail))]
      [] f.kind = "csv" ->
            IF "efek_kopi" \in f.frame.cols
            THEN [df |-> Some(WithEfekNum(f.frame)), error_msg |-> None]
            ELSE [df |-> Some(f.frame), error_msg |-> Some(MsgOther("'efek_kopi'"))]

load_data_body(f) ==
    CASE f.kind = "missing" -> [df |-> None, error_msg |-> Some(MsgNotFound)]
      [] f.kind = "unreadable" -> [df |-> None, error_msg |-> Some(MsgOther(f.detail))]
      [] f.kind = "csv" ->
            IF "efek_kopi" \in f.frame.cols
            THEN [df |-> Some(WithEfekNum(f.frame)), error_msg |-> None]
            ELSE [df |-> None, error_msg |-> Some(MsgOther("'efek_kopi'"))]

\* ----------------------------------------------------------------- filter
Semua == "Semua"
FilterCols == <<"makna_ngopi", "cara_dapat_kopi", "efek_kopi">>

FilterStep_mut_ne(d, col, value) ==
    BoolIndex(d, [i \in 1..len(d) |-> d.rows[i][col] # Some(value)])

\* df_filtered[df_filtered[col] == value]
FilterStep(d, col, value) ==
    BoolIndex(d, [i \in 1..len(d) |-> d.rows[i][col] = Some(value)])

RECURSIVE FilterLoop(_, _, _)
\* the for loop over filter_options.items(), in insertion order
FilterLoop(d, opts, k) ==
    IF k > Len(FilterCols) THEN d
    ELSE LET col == FilterCols[k]
         IN  IF col \in DOMAIN opts /\ opts[col] # Semua
             THEN FilterLoop(FilterStep(d, col, opts[col]), opts, k + 1)
             ELSE FilterLoop(d, opts, k + 1)

copy_mut_same(d) == [frame |-> d, shares |-> TRUE]

\* df.copy(): a frame with the same cells that shares no data with df, so that
\* a write to one is not seen in the other
copy(d) == [frame |-> d, shares |-> FALSE]

\* the wildcard written in lower case: no selection equals it
ApplyFilter_mut_wildcard(d, opts) ==
    FilterLoop(copy(d).frame, [c \in DOMAIN opts |-> IF opts[c] = Semua THEN "semua" ELSE opts[c]], 1)

\* df_filtered = df.copy() followed by the loop
ApplyFilter(d, opts) == FilterLoop(copy(d).frame, opts, 1)

\* whether df_filtered is still the frame df.copy() returned and shares df's
\* data: df_filtered[mask] of line 642 makes a frame of its own
SharesData(d, opts) == copy(d).shares /\ \A c \in DOMAIN opts : opts[c] = Semua

\* pd.cut(x, bins=[0, 0.1, 15000, 30000, 50000, 100000, inf], labels, right=False)
\* for a whole number of rupiah
cut(cell) ==
    IF ~notna(cell) \/ cell[1] < 0 THEN NA
    ELSE CASE cell[1] = 0 -> Some("Tidak mengeluarkan")
           [] cell[1] >= 1 /\ cell[1] < 15000 -> Some("< Rp 15rb")
           [] cell[1] >= 15000 /\ cell[1] < 30000 -> Some("Rp 15-30rb")
           [] cell[1] >= 30000 /\ cell[1] < 50000 -> Some("Rp 30-50rb")
           [] cell[1] >= 50000 /\ cell[1] < 100000 -> Some("Rp 50-100rb")
           [] OTHER -> Some(">= Rp 100rb")

\* d['kat_pengeluaran'] = pd.cut(d['pengeluaran_num'], ...)
WithKatPengeluaran(d) ==
    [cols |-> d.cols \cup {"kat_pengeluaran"},
     rows |-> [i \in 1..len(d) |->
                 [c \in DOMAIN d.rows[i] \cup {"kat_pengeluaran"} |->
                    IF c = "kat_pengeluaran" THEN cut(d.rows[i]["pengeluaran_num"]) ELSE d.rows[i][c]]]]

\* sorted([x for x in df[col].unique() if pd.notna(x)]) as a set of values
DistinctValues(d, col) == {d.rows[i][col][1] : i \in {j \in 1..len(d) : notna(d.rows[j][col])}}

\* ------------------------------------------------------------- regression
RECURSIVE FSum(_)
FSum(s) == IF s = <<>> THEN Zero ELSE FAdd(Head(s), FSum(Tail(s)))

FDiv(p, q) == Frac(p[1] * q[2], p[2] * q[1])

NoModel == [model |-> None, y_pred |-> None, r2 |-> Zero, rmse |-> sqrt(Zero)]

\* df[['efek_kopi_num', 'fokus_num']].dropna(): the indices of the rows kept
ValidIdx(d) ==
    SelectIdx(len(d),
              [i \in 1..len(d) |-> notna(d.rows[i]["efek_kopi_num"]) /\ notna(d.rows[i]["fokus_num"])],
              1)

\* a fit through the origin, as fit_intercept=False would make it
Fit_mut_origin(xs, ys) ==
    LET n == Len(xs)
        Sxx == SumSeq([i \in 1..n |-> xs[i] * xs[i]])
        Sxy == SumSeq([i \in 1..n |-> xs[i] * ys[i]])
    IN  [coef_ |-> IF Sxx = 0 THEN Zero ELSE Frac(Sxy, Sxx), intercept_ |-> Zero]

\* LinearRegression().fit(X, y) for one predictor: least squares on the centred
\* data; a constant predictor gives the minimum-norm solution, coefficient 0
Fit(xs, ys) ==
    LET n == Len(xs)
        Sx == SumSeq(xs)
        Sy == SumSeq(ys)
        Sxx == n * SumSeq([i \in 1..n |-> xs[i] * xs[i]]) - Sx * Sx
        Sxy == n * SumSeq([i \in 1..n |-> xs[i] * ys[i]]) - Sx * Sy
        coef == IF Sxx = 0 THEN Zero ELSE Frac(Sxy, Sxx)
    IN  [coef_ |-> coef, intercept_ |-> FSub(Frac(Sy, n), FMul(coef, Frac(Sx, n)))]

\* model.predict(X)
Predict(m, xs) == [i \in 1..Len(xs) |-> FAdd(m.intercept_, FMul(m.coef_, FInt(xs[i])))]

SSres(ys, pred) ==
    FSum([i \in 1..Len(ys) |-> FMul(FSub(FInt(ys[i]), pred[i]), FSub(FInt(ys[i]), pred[i]))])

SStot(ys) ==
    LET mean == Frac(SumSeq(ys), Len(ys))
    IN  FSum([i \in 1..Len(ys) |-> FMul(FSub(FInt(ys[i]), mean), FSub(FInt(ys[i]), mean))])

\* sklearn.metrics.r2_score
r2_score(ys, pred) ==
    LET num == SSres(ys, pred)
        den == SStot(ys)
    IN  IF den # Zero THEN FSub(FInt(1), FDiv(num, den))
        ELSE IF num # Zero THEN Zero
        ELSE FInt(1)

\* sklearn.metrics.mean_squared_error
mean_squared_error(ys, pred) == FDiv(SSres(ys, pred), FInt(Len(ys)))

EnoughValid_mut_one(n) == n > 0

\* the length test on the rows kept by dropna
EnoughValid(n) == n > 1

\* the body of calculate_regression
calculate_regression_body(d) ==
    IF "efek_kopi_num" \in d.cols /\ "fokus_num" \in d.cols /\ len(d) > 1
    THEN LET idx == ValidIdx(d)
             xs == [k \in 1..Len(idx) |-> d.rows[idx[k]]["efek_kopi_num"][1]]
             ys == [k \in 1..Len(idx) |-> d.rows[idx[k]]["fokus_num"][1]]
         IN  IF EnoughValid(Len(idx))
             THEN LET model == Fit(xs, ys)
                      y_pred == Predict(model, xs)
                  IN  [model |-> Some(model), y_pred |-> Some(y_pred),
                       r2 |-> r2_score(ys, y_pred),
                       rmse |-> sqrt(mean_squared_error(ys, y_pred))]
             ELSE NoModel
    ELSE NoModel

\* @st.cache_data on calculate_regression(_df): a parameter whose name starts
\* with an underscore is left out of the cache key, so the key is the function
\* alone and the memo holds at most one entry.
\* The value returned for argument d with memo c, and the memo afterwards.
RegressionMemoAfter_mut_never(c, d) == c

calculate_regression(c, d) == IF c # None THEN c[1] ELSE calculate_regression_body(d)
RegressionMemoAfter(c, d) == IF c # None THEN c ELSE Some(calculate_regression_body(d))
\* --------------------------------------------------------- safe accessors
RECURSIVE Insert(_, _)
Insert(v, s) ==
    IF s = <<>> THEN <<v>>
    ELSE IF v <= Head(s) THEN <<v>> \o s ELSE <<Head(s)>> \o Insert(v, Tail(s))

RECURSIVE Sorted(_)
Sorted(s) == IF s = <<>> THEN <<>> ELSE Insert(Head(s), Sorted(Tail(s)))

SeriesMean_mut_sum(vals) == IF vals = <<>> THEN NaN ELSE Frac(SumSeq(vals), 1)

\* Series.mean(): nulls skipped, nan when nothing is left
SeriesMean(vals) == IF vals = <<>> THEN NaN ELSE Frac(SumSeq(vals), Len(vals))

\* Series.median(): nulls skipped, nan when nothing is left
SeriesMedian(vals) ==
    LET n == Len(vals)
        srt == Sorted(vals)
    IN  IF n = 0 THEN NaN
        ELSE IF n % 2 = 1 THEN FInt(srt[(n + 1) \div 2])
        ELSE Frac(srt[n \div 2] + srt[n \div 2 + 1], 2)

\* df[column_name] == default, for a numeric column and a numeric default
CellEq(cell, default) == notna(cell) /\ FInt(cell[1]) = default

\* the value returned when the column is absent or the frame has no rows
Neutral(default) == default

\* safe_column_access(df, column_name, operation, default); numeric results are
\* fractions, a fall through the if/elif chain returns None
safe_column_access(d, column_name, operation, default) ==
    IF column_name \notin d.cols THEN Neutral(default)
    ELSE IF len(d) = 0 THEN Neutral(default)
    ELSE CASE operation = "mean" -> SeriesMean(dropna(d, column_name))
           [] operation = "median" -> SeriesMedian(dropna(d, column_name))
           [] operation = "count" -> FInt(Len(dropna(d, column_name)))
           [] operation = "percentage" ->
                Frac(100 * Cardinality({i \in 1..len(d) : CellEq(d.rows[i][column_name], default)}),
                     len(d))
           [] OTHER -> None

\* a Series: an ordered mapping, the sequence of its <<key, value>> items
Series(items) == [items |-> items]
\* pd.Series()
EmptySeries == Series(<<>>)

RECURSIVE Uniq(_, _)
\* the distinct values of a sequence in first-encountered order
Uniq(s, seen) ==
    IF s = <<>> THEN <<>>
    ELSE IF Head(s) \in seen THEN Uniq(Tail(s), seen)
         ELSE <<Head(s)>> \o Uniq(Tail(s), seen \cup {Head(s)})

CountOf(vals, v) == Cardinality({i \in 1..Len(vals) : vals[i] = v})

\* the orders in which the members of a finite set can come
Orderings(S) ==
    {s \in [1..Cardinality(S) -> S] : \A i, j \in 1..Cardinality(S) : s[i] = s[j] => i = j}

\* Series.value_counts(): the count of every non-null value, sorted by
\* sort_values(ascending=False). Its default kind, 'quicksort', is not a stable
\* sort, so values of equal count come in an order pandas does not fix: the
\* results are all the descending orders of the counts.
value_counts(vals) ==
    LET entries == {<<vals[i], CountOf(vals, vals[i])>> : i \in 1..Len(vals)}
    IN  {s \in Orderings(entries) : \A i, j \in 1..Len(s) : i < j => s[i][2] >= s[j][2]}

head_mut_all(s, n) == s

\* Series.head(n)
head(s, n) == SubSeq(s, 1, IF Len(s) < n THEN Len(s) ELSE n)

default_limit == 10

\* safe_value_counts(df, column_name, default_limit): the Series it can return
safe_value_counts(d, column_name, limit) ==
    IF column_name \notin d.cols \/ len(d) = 0 THEN {EmptySeries}
    ELSE {Series(head(s, limit)) : s \in value_counts(dropna(d, column_name))}

\* the strings of the model in ascending (Python str) order
StrOrder == <<"Beli di cafe", "Biasa aja", "Buat sendiri", "Gaya hidup", "Jadi cemas", "Lainnya",
              "Lebih fokus", "Lebih semangat", "Sekedar kebiasaan", "Tahan ngantuk">>
StrRank(v) == CHOOSE i \in 1..Len(StrOrder) : StrOrder[i] = v

RECURSIVE InsertKey(_, _)
InsertKey(v, s) ==
    IF s = <<>> THEN <<v>>
    ELSE IF StrRank(v) <= StrRank(Head(s)) THEN <<v>> \o s ELSE <<Head(s)>> \o InsertKey(v, Tail(s))

RECURSIVE SortedKeys(_)
\* sorted(...) of a sequence of strings
SortedKeys(s) == IF s = <<>> THEN <<>> ELSE InsertKey(Head(s), SortedKeys(Tail(s)))

\* df.groupby(group_col)[agg_col]: the values of agg_col, nulls dropped, in the
\* rows whose key is k
GroupVals(d, group_col, agg_col, k) ==
    LET idx == SelectIdx(len(d),
                         [i \in 1..len(d) |-> d.rows[i][group_col] = Some(k) /\ notna(d.rows[i][agg_col])], 1)
    IN  [j \in 1..Len(idx) |-> d.rows[idx[j]][agg_col][1]]

\* safe_groupby(df, group_col, agg_col, operation): groups in ascending key order
safe_groupby(d, group_col, agg_col, operation) ==
    IF group_col \notin d.cols \/ agg_col \notin d.cols \/ len(d) = 0 THEN EmptySeries
    ELSE LET keys == SortedKeys(Uniq(dropna(d, group_col), {}))
         IN  CASE operation = "mean" ->
                    Series([k \in 1..Len(keys) |->
                              <<keys[k], SeriesMean(GroupVals(d, group_col, agg_col, keys[k]))>>])
               [] operation = "count" ->
                    Series([k \in 1..Len(keys) |->
                              <<keys[k], FInt(Len(GroupVals(d, group_col, agg_col, keys[k])))>>])
               [] OTHER -> None

\* -------------------------------------------------------------- validator
required_columns == <<"efek_kopi_num", "fokus_num", "gelas_num", "durasi_num">>
NullChecked == <<"efek_kopi_num", "fokus_num">>

IssueEmpty == [text |-> "Dataframe kosong"]
IssueMissing(cols) == [text |-> "Kolom yang hilang: ", missing_columns |-> cols]
IssueNull(col, n) == [text |-> " memiliki nilai null", col |-> col, null_count |-> n]

\* [col for col in required_columns if col not in df.columns]
missing_columns(d) ==
    LET idx == SelectIdx(Len(required_columns),
                         [k \in 1..Len(required_columns) |-> required_columns[k] \notin d.cols], 1)
    IN  [k \in 1..Len(idx) |-> required_columns[idx[k]]]

\* df[col].isnull().sum()
null_count(d, col) == Cardinality({i \in 1..len(d) : ~notna(d.rows[i][col])})

RECURSIVE NullIssues(_, _)
\* the loop over ['efek_kopi_num', 'fokus_num']
NullIssues(d, k) ==
    IF k > Len(NullChecked) THEN <<>>
    ELSE LET col == NullChecked[k]
         IN  (IF col \in d.cols /\ null_count(d, col) > 0
              THEN <<IssueNull(col, null_count(d, col))>> ELSE <<>>)
             \o NullIssues(d, k + 1)

validate_data_quality_mut_noreturn(d) ==
    (IF len(d) = 0 THEN <<IssueEmpty>> ELSE <<>>)
    \o (IF missing_columns(d) # <<>> THEN <<IssueMissing(missing_columns(d))>> ELSE <<>>)
    \o NullIssues(d, 1)

validate_data_quality(d) ==
    IF len(d) = 0 THEN <<IssueEmpty>>
    ELSE (IF missing_columns(d) # <<>> THEN <<IssueMissing(missing_columns(d))>> ELSE <<>>)
         \o NullIssues(d, 1)

generate_summary_report_mut_full(d, d_filtered) ==
    [total_respondents |-> len(d),
     filtered_respondents |-> len(d_filtered),
     data_quality_issues |-> validate_data_quality(d_filtered),
     key_metrics |->
        [avg_coffee_consumption |-> safe_column_access(d, "gelas_num", "mean", Zero),
         avg_spending |-> safe_column_access(d, "pengeluaran_num", "mean", Zero),
         avg_study_duration |-> safe_column_access(d, "durasi_num", "mean", Zero),
         avg_focus_improvement |-> safe_column_access(d, "fokus_num", "mean", Zero)]]

\* generate_summary_report(df, df_filtered), the timestamp left out
generate_summary_report(d, d_filtered) ==
    [total_respondents |-> len(d),
     filtered_respondents |-> len(d_filtered),
     data_quality_issues |-> validate_data_quality(d_filtered),
     key_metrics |->
        [avg_coffee_consumption |-> safe_column_access(d_filtered, "gelas_num", "mean", Zero),
         avg_spending |-> safe_column_access(d_filtered, "pengeluaran_num", "mean", Zero),
         avg_study_duration |-> safe_column_access(d_filtered, "durasi_num", "mean", Zero),
         avg_focus_improvement |-> safe_column_access(d_filtered, "fokus_num", "mean", Zero)]]
\* ------------------------------------------------------------ input bounds
\* the largest number of rows of a frame handed to a function on its own
MaxRows == 3
\* the largest number of rows of a frame in a sequence of memoized calls
MaxMemoRows == 2

Row(makna, cara, efek, fokus, gelas, pengeluaran, durasi) ==
    [makna_ngopi |-> makna, cara_dapat_kopi |-> cara, efek_kopi |-> efek, efek_kopi_num |-> NA,
     fokus_num |-> fokus, gelas_num |-> gelas, pengeluaran_num |-> pengeluaran, durasi_num |-> durasi]

R1 == Row(Some("Gaya hidup"), Some("Beli di cafe"), Some("Lebih fokus"), Some(60), Some(2), Some(50), Some(4))
R2 == Row(Some("Gaya hidup"), Some("Buat sendiri"), Some("Biasa aja"), Some(20), Some(1), Some(20), Some(2))
R3 == Row(Some("Sekedar kebiasaan"), Some("Beli di cafe"), Some("Lebih fokus"), Some(40), Some(3), Some(70), Some(3))
R4 == Row(Some("Sekedar kebiasaan"), Some("Buat sendiri"), Some("Biasa aja"), Some(30), Some(1), Some(10), Some(2))
R5 == Row(Some("Gaya hidup"), Some("Beli di cafe"), Some("Lainnya"), Some(50), Some(2), NA, Some(5))
R6 == Row(NA, NA, Some("Jadi cemas"), NA, NA, Some(30), NA)

\* the rows a survey file is made of
RowUniverse == {R1, R2, R3, R4, R5, R6}

\* the column sets a frame may come with
ColVariants ==
    {AllCols, AllCols \ {"fokus_num"}, AllCols \ {"gelas_num", "durasi_num"},
     AllCols \ {"efek_kopi_num"}, AllCols \ {"makna_ngopi", "pengeluaran_num"}}

\* a frame restricted to the columns cols: the cells of the others are null
Project(d, cols) ==
    [cols |-> cols,
     rows |-> [i \in 1..len(d) |-> [c \in AllCols |-> IF c \in cols THEN d.rows[i][c] ELSE NA]]]

RawFrames(n) == {[cols |-> RawCols, rows |-> s] : s \in UNION {[1..k -> RowUniverse] : k \in 0..n}}

\* the frames of at most n rows, the effect encoding applied
Frames(n) == {Project(WithEfekNum(raw), cols) : raw \in RawFrames(n), cols \in ColVariants}

\* five respondents, one for each effect label, whose focus gain rises with the label's number
Answer(efek, fokus) == Row(Some("Gaya hidup"), Some("Beli di cafe"), Some(efek), Some(fokus), Some(2), Some(50), Some(4))
ScenarioFrame ==
    WithEfekNum([cols |-> RawCols,
                 rows |-> <<Answer("Jadi cemas", 20), Answer("Biasa aja", 34), Answer("Tahan ngantuk", 46),
                            Answer("Lebih semangat", 57), Answer("Lebih fokus", 69)>>])

\* ten respondents: three say 'Lebih fokus' (1, 2 and 4 glasses a day), seven 'Biasa aja'
Respondent(efek, gelas) ==
    Row(Some("Gaya hidup"), Some("Beli di cafe"), Some(efek), Some(30), Some(gelas), Some(50), Some(4))
SurveyOfTen ==
    WithEfekNum([cols |-> RawCols,
                 rows |-> <<Respondent("Biasa aja", 3), Respondent("Lebih fokus", 1), Respondent("Biasa aja", 2),
                            Respondent("Biasa aja", 5), Respondent("Lebih fokus", 2), Respondent("Biasa aja", 1),
                            Respondent("Biasa aja", 3), Respondent("Biasa aja", 2), Respondent("Lebih fokus", 4),
                            Respondent("Biasa aja", 6)>>])

col_options_mut_unsorted(d, col) == <<Semua>> \o Uniq(dropna(d, col), {})

\* ['Semua'] + sorted([x for x in df[col].unique() if pd.notna(x)])
col_options(d, col) == <<Semua>> \o SortedKeys(Uniq(dropna(d, col), {}))

\* the values a selector may hold for a frame: the wildcard or a value of the column
Options(d, col) == {Semua} \cup DistinctValues(d, col)

\* the filter_options the sidebar can build for a frame
FilterOptions(d) ==
    LET present == {c \in CatCols : c \in d.cols}
    IN  {o \in [present -> UNION {Options(d, c) : c \in present}] : \A c \in present : o[c] \in Options(d, c)}

\* the cells an efek_kopi column may hold: the five labels, another answer, a null
EffectCells ==
    {Some(l) : l \in {"Lebih fokus", "Lebih semangat", "Tahan ngantuk", "Biasa aja", "Jadi cemas", "Lainnya"}}
        \cup {NA}

Operations == {"mean", "median", "count", "percentage", "sum"}
Defaults == {Zero, FInt(1)}
\* ------------------------------------------------------------ the session
\* how often the file on disk is replaced during a session
MaxFileChanges == 1

Csv(rows, cols) == [kind |-> "csv", frame |-> Project([cols |-> cols, rows |-> rows], cols)]

\* the contents the survey file may have
DiskFiles ==
    {[kind |-> "missing"],
     [kind |-> "unreadable", detail |-> "No columns to parse from file"],
     Csv(<<R1, R2, R3, R4>>, RawCols),
     Csv(<<R3, R5, R6, R1>>, RawCols),
     Csv(<<R1, R5>>, RawCols \ {"cara_dapat_kopi", "durasi_num"}),
     Csv(<<R2, R4>>, RawCols \ {"efek_kopi"})}

VARIABLES
    file,            \* the content of kuesioner_ngopi_bersih.csv
    file_changes,    \* how often it was replaced
    cache_load,      \* st.cache_data memo of load_data: None or Some(result)
    cache_reg,       \* st.cache_data memo of calculate_regression: None or Some(result)
    selected,        \* session state of the three selectboxes
    checkbox,        \* session state of the three checkboxes
    button,          \* the button whose click started this run, or "none"
    trigger,         \* what started this run
    pc,              \* the position of the script run
    df, error_msg,   \* the script's df and error_msg
    filter_options,  \* the script's filter_options
    df_filtered,     \* the script's df_filtered, None before line 639
    issues,          \* the script's issues, None before line 647
    report,          \* the report of the Export Full Report branch
    tab1, tab5,      \* what the overview and the regression tab computed
    ran,             \* the stages that completed in this run
    fits,            \* how often this run executed the body of calculate_regression
    read_file,       \* whether this run read the file
    file_at_refresh, \* the content of the file when the refresh branch last ran
    file_read,       \* the content of the file when load_data last read it
    prev,            \* what the run before showed, kept when a checkbox started this run
    fn_arg, fn_opts, fn_out  \* a function applied on its own: argument, options, result

vars == <<file, file_changes, cache_load, cache_reg, selected, checkbox, button, trigger, pc,
          df, error_msg, filter_options, df_filtered, issues, report, tab1, tab5, ran, fits,
          read_file, file_at_refresh, file_read, prev, fn_arg, fn_opts, fn_out>>

session == <<file, file_changes, cache_load, cache_reg, selected, checkbox, button, trigger, pc,
             df, error_msg, filter_options, df_filtered, issues, report, tab1, tab5, ran, fits,
             read_file, file_at_refresh, file_read, prev>>

\* a selectbox that was never rendered: it shows its first option
Unrendered == [options |-> <<>>, value |-> Semua]
selected0 == [c \in CatCols |-> Unrendered]
\* value=True, value=False, value=False
checkbox0 == [show_detailed_charts |-> TRUE, show_statistics |-> FALSE, auto_refresh |-> FALSE]

NoOut == [fn |-> "none"]
NoOptions == <<>>

\* the script's variables before its first statement
ScriptReset ==
    /\ df' = None /\ error_msg' = None /\ filter_options' = NoOptions
    /\ df_filtered' = None /\ issues' = None /\ report' = None
    /\ tab1' = None /\ tab5' = None /\ ran' = {} /\ fits' = 0 /\ read_file' = FALSE

SessionInit ==
    /\ file \in DiskFiles /\ file_changes = 0
    /\ cache_load = None /\ cache_reg = None
    /\ selected = selected0 /\ checkbox = checkbox0
    /\ button = "none" /\ trigger = "session" /\ pc = "load"
    /\ df = None /\ error_msg = None /\ filter_options = NoOptions
    /\ df_filtered = None /\ issues = None /\ report = None
    /\ tab1 = None /\ tab5 = None /\ ran = {} /\ fits = 0 /\ read_file = FALSE
    /\ file_at_refresh = None /\ file_read = None /\ prev = None

Init ==
    /\ SessionInit
    /\ fn_arg = [cols |-> {}, rows |-> <<>>] /\ fn_opts = NoOptions /\ fn_out = NoOut

\* the script is not running: it finished, sleeps before the auto-refresh rerun,
\* was stopped by st.stop() or ended in an uncaught exception
Waiting == {"idle", "sleep", "stopped", "crashed"}

\* st.cache_data.clear()
cache_clear_mut_keep(c) == c

cache_clear(c) == None

\* @st.cache_data on load_data(): the value returned with memo c and file f
load_data(c, f) == IF c # None THEN c[1] ELSE load_data_body(f)

\* the memo is written on a miss only
MemoStore_mut_never(c, r) == c

MemoStore(c, r) == IF c # None THEN c ELSE Some(r)

\* lines 549-554
RunLoad ==
    /\ pc = "load"
    /\ LET res == load_data(cache_load, file)
       IN  /\ cache_load' = MemoStore(cache_load, res)
           /\ read_file' = (cache_load = None)
           /\ file_read' = IF cache_load = None THEN Some(file) ELSE file_read
           /\ df' = res.df
           /\ error_msg' = res.error_msg
           /\ pc' = IF res.df = None THEN "stopped" ELSE "sidebar"
    /\ UNCHANGED <<file, file_changes, cache_reg, selected, checkbox, button, trigger,
                   filter_options, df_filtered, issues, report, tab1, tab5, ran, fits,
                   file_at_refresh, prev, fn_arg, fn_opts, fn_out>>

\* a selectbox keeps its value while its options are the same; with other
\* options it is another widget and shows its first option
SelectboxValue(w, options) == IF w.options = options THEN w.value ELSE Semua

\* lines 568-590
RunSidebar ==
    /\ pc = "sidebar"
    /\ LET d == df[1]
           present == {c \in CatCols : c \in d.cols}
       IN  /\ selected' = [c \in CatCols |->
                             IF c \in present
                             THEN [options |-> col_options(d, c),
                                   value |-> SelectboxValue(selected[c], col_options(d, c))]
                             ELSE Unrendered]
           /\ filter_options' = [c \in present |-> SelectboxValue(selected[c], col_options(d, c))]
    /\ ran' = ran \cup {"sidebar"}
    /\ fits' = fits
    /\ pc' = "export"
    /\ UNCHANGED <<file, file_changes, cache_load, cache_reg, checkbox, button, trigger,
                   df, error_msg, df_filtered, issues, report, tab1, tab5,
                   read_file, file_at_refresh, file_read, prev, fn_arg, fn_opts, fn_out>>

\* lines 597-626
RunExport ==
    /\ pc = "export"
    /\ IF button = "export_report"
       THEN /\ report' = Some(generate_summary_report(df[1], df[1]))
            /\ ran' = ran \cup {"summary"}
       ELSE IF button = "export_summary"
       THEN /\ report' = report
            /\ ran' = ran \cup {"describe"}
       ELSE UNCHANGED <<report, ran>>
    /\ fits' = fits
    /\ pc' = "refresh"
    /\ UNCHANGED <<file, file_changes, cache_load, cache_reg, selected, checkbox, button, trigger,
                   df, error_msg, filter_options, df_filtered, issues, tab1, tab5,
                   read_file, file_at_refresh, file_read, prev, fn_arg, fn_opts, fn_out>>
\* the first statement of a rerun: the script starts over
BeginRun(t) ==
    /\ pc' = "load"
    /\ trigger' = t
    /\ ScriptReset

\* lines 631-636
RunRefresh ==
    /\ pc = "refresh"
    /\ IF button = "refresh"
       THEN LET c == cache_clear(cache_load)
                res == load_data(c, file)
            IN  /\ cache_load' = MemoStore(c, res)
                /\ cache_reg' = cache_clear(cache_reg)
                /\ file_at_refresh' = Some(file)
                /\ file_read' = IF c = None THEN Some(file) ELSE file_read
                /\ IF res.df # None
                   THEN \* st.rerun()
                        /\ button' = "none"
                        /\ prev' = None
                        /\ BeginRun("rerun")
                   ELSE /\ df' = res.df
                        /\ error_msg' = res.error_msg
                        /\ read_file' = (read_file \/ c = None)
                        /\ pc' = "filter"
                        /\ UNCHANGED <<button, trigger, filter_options, df_filtered, issues,
                                       report, tab1, tab5, ran, fits, prev>>
       ELSE /\ pc' = "filter"
            /\ UNCHANGED <<cache_load, cache_reg, file_at_refresh, file_read, button, trigger, df, error_msg,
                           filter_options, df_filtered, issues, report, tab1, tab5, ran, fits, read_file,
                           prev>>
    /\ UNCHANGED <<file, file_changes, selected, checkbox, fn_arg, fn_opts, fn_out>>

\* lines 638-644; df.copy() on None raises AttributeError, which ends the run
RunFilter ==
    /\ pc = "filter"
    /\ IF df = None
       THEN /\ pc' = "crashed"
            /\ UNCHANGED <<df_filtered, ran>>
       ELSE /\ df_filtered' = Some(ApplyFilter(df[1], filter_options))
            /\ ran' = ran \cup {"filter"}
            /\ pc' = "quality"
    /\ fits' = fits
    /\ UNCHANGED <<file, file_changes, cache_load, cache_reg, selected, checkbox, button, trigger,
                   df, error_msg, filter_options, issues, report, tab1, tab5,
                   read_file, file_at_refresh, file_read, prev, fn_arg, fn_opts, fn_out>>

\* lines 646-649
RunQuality ==
    /\ pc = "quality"
    /\ issues' = Some(validate_data_quality(df_filtered[1]))
    /\ ran' = ran \cup {"quality"}
    /\ fits' = fits
    /\ pc' = "tab1"
    /\ UNCHANGED <<file, file_changes, cache_load, cache_reg, selected, checkbox, button, trigger,
                   df, error_msg, filter_options, df_filtered, report, tab1, tab5,
                   read_file, file_at_refresh, file_read, prev, fn_arg, fn_opts, fn_out>>

HasRegressionCols(d) == "efek_kopi_num" \in d.cols /\ "fokus_num" \in d.cols

\* lines 658-875: the four means, the regression call of line 811 and the one of line 869
RunTab1 ==
    /\ pc = "tab1"
    /\ LET d == df_filtered[1]
           call == HasRegressionCols(d) /\ len(d) > 0
           res1 == calculate_regression(cache_reg, d)
           c1 == IF call THEN RegressionMemoAfter(cache_reg, d) ELSE cache_reg
           res2 == calculate_regression(c1, d)
       IN  /\ tab1' = Some([avg_gelas |-> safe_column_access(d, "gelas_num", "mean", Zero),
                            avg_pengeluaran |-> safe_column_access(d, "pengeluaran_num", "mean", Zero),
                            avg_durasi |-> safe_column_access(d, "durasi_num", "mean", Zero),
                            avg_fokus |-> safe_column_access(d, "fokus_num", "mean", Zero),
                            regression |-> IF call THEN Some(res1) ELSE None,
                            r2_value |-> IF call /\ res2.model # None THEN res2.r2 ELSE Zero])
           /\ cache_reg' = c1
           /\ ran' = ran \cup {"accessors"} \cup (IF call THEN {"regression"} ELSE {})
           /\ fits' = fits + (IF call /\ cache_reg = None THEN 1 ELSE 0)
                           + (IF call /\ c1 = None THEN 1 ELSE 0)
    /\ pc' = "tabs"
    /\ UNCHANGED <<file, file_changes, cache_load, selected, checkbox, button, trigger,
                   df, error_msg, filter_options, df_filtered, issues, report, tab5,
                   read_file, file_at_refresh, file_read, prev, fn_arg, fn_opts, fn_out>>

WritesKatPengeluaran_mut_gated(d, show_detailed_charts) ==
    len(d) # 0 /\ "pengeluaran_num" \in d.cols /\ show_detailed_charts

\* whether the meaning tab writes kat_pengeluaran: lines 1761, 1763 and 1894, under
\* none of the checkboxes
WritesKatPengeluaran(d, show_detailed_charts) == len(d) # 0 /\ "pengeluaran_num" \in d.cols

\* lines 960-2061: the consumption, effectiveness and meaning tabs; the meaning
\* tab writes the column kat_pengeluaran into df_filtered (lines 1894-1898)
RunTabs ==
    /\ pc = "tabs"
    /\ LET d == df_filtered[1]
           write == WritesKatPengeluaran(d, checkbox.show_detailed_charts)
       IN  /\ df_filtered' = IF write THEN Some(WithKatPengeluaran(d)) ELSE df_filtered
           /\ df' = IF write /\ SharesData(df[1], filter_options)
                    THEN Some(WithKatPengeluaran(df[1])) ELSE df
    /\ ran' = ran \cup {"accessors"}
    /\ fits' = fits
    /\ pc' = "tab5"
    /\ UNCHANGED <<file, file_changes, cache_load, cache_reg, selected, checkbox, button, trigger,
                   error_msg, filter_options, issues, report, tab1, tab5,
                   read_file, file_at_refresh, file_read, prev, fn_arg, fn_opts, fn_out>>

\* lines 2064-2272
RunTab5 ==
    /\ pc = "tab5"
    /\ LET d == df_filtered[1]
           idx == ValidIdx(d)
           xs == [k \in 1..Len(idx) |-> d.rows[idx[k]]["efek_kopi_num"][1]]
           ys == [k \in 1..Len(idx) |-> d.rows[idx[k]]["fokus_num"][1]]
           call == len(d) # 0 /\ HasRegressionCols(d) /\ Len(idx) > 1
           res == calculate_regression(cache_reg, d)
       IN  /\ cache_reg' = IF call THEN RegressionMemoAfter(cache_reg, d) ELSE cache_reg
           /\ ran' = ran \cup (IF call THEN {"regression"} ELSE {})
           /\ fits' = fits + (IF call /\ cache_reg = None THEN 1 ELSE 0)
           /\ tab5' =
                IF len(d) = 0 THEN Some([shown |-> "no rows"])
                ELSE IF ~HasRegressionCols(d) THEN Some([shown |-> "no columns"])
                ELSE IF ~(Len(idx) > 1) THEN Some([shown |-> "too few valid rows"])
                ELSE IF res.model = None THEN Some([shown |-> "no model", result |-> res])
                ELSE LET model == res.model[1]
                         y_pred == IF Len(res.y_pred[1]) # Len(ys) THEN Predict(model, xs)
                                   ELSE res.y_pred[1]
                         n == Len(ys)
                     IN  Some([shown |-> "model", result |-> res,
                               intercept |-> model.intercept_, slope |-> model.coef_,
                               y_pred |-> y_pred, n |-> n,
                               statistics_view |-> checkbox.show_statistics,
                               diagnostic_plots |-> checkbox.show_detailed_charts,
                               residuals |-> [i \in 1..n |-> FSub(FInt(ys[i]), y_pred[i])],
                               dof |-> n - 2,
                               x_ss |-> Frac(n * SumSeq([i \in 1..n |-> xs[i] * xs[i]])
                                             - SumSeq(xs) * SumSeq(xs), n)])
    /\ pc' = "tab6"
    /\ UNCHANGED <<file, file_changes, cache_load, selected, checkbox, button, trigger,
                   df, error_msg, filter_options, df_filtered, issues, report, tab1,
                   read_file, file_at_refresh, file_read, prev, fn_arg, fn_opts, fn_out>>

\* lines 2275-2382: the validation tab and the footer
RunTab6 ==
    /\ pc = "tab6"
    /\ ran' = ran \cup {"render"}
    /\ fits' = fits
    /\ pc' = "auto"
    /\ UNCHANGED <<file, file_changes, cache_load, cache_reg, selected, checkbox, button, trigger,
                   df, error_msg, filter_options, df_filtered, issues, report, tab1, tab5,
                   read_file, file_at_refresh, file_read, prev, fn_arg, fn_opts, fn_out>>

\* lines 2386-2392: with auto-refresh the script sleeps, without it it ends
RunAutoRefresh ==
    /\ pc = "auto"
    /\ pc' = IF checkbox.auto_refresh THEN "sleep" ELSE "idle"
    /\ UNCHANGED <<file, file_changes, cache_load, cache_reg, selected, checkbox, button, trigger,
                   df, error_msg, filter_options, df_filtered, issues, report, tab1, tab5, ran, fits,
                   read_file, file_at_refresh, file_read, prev, fn_arg, fn_opts, fn_out>>

TimerElapsed_mut_clear ==
    /\ pc = "sleep"
    /\ button' = "none"
    /\ prev' = None
    /\ cache_load' = cache_clear(cache_load)
    /\ cache_reg' = cache_clear(cache_reg)
    /\ BeginRun("auto")
    /\ UNCHANGED <<file, file_changes, selected, checkbox,
                   file_at_refresh, file_read, fn_arg, fn_opts, fn_out>>

\* line 2393: st.rerun() after time.sleep(30)
TimerElapsed ==
    /\ pc = "sleep"
    /\ button' = "none"
    /\ prev' = None
    /\ BeginRun("auto")
    /\ UNCHANGED <<file, file_changes, cache_load, cache_reg, selected, checkbox,
                   file_at_refresh, file_read, fn_arg, fn_opts, fn_out>>

\* the sidebar of the last run is on screen
SidebarShown == pc \in {"idle", "sleep", "crashed"}

\* the user picks another option of a selectbox
SelectFilter ==
    /\ SidebarShown
    /\ \E c \in DOMAIN filter_options : \E k \in 1..Len(selected[c].options) :
          /\ selected[c].options[k] # selected[c].value
          /\ selected' = [selected EXCEPT ![c].value = selected[c].options[k]]
    /\ button' = "none"
    /\ prev' = None
    /\ BeginRun("widget")
    /\ UNCHANGED <<file, file_changes, cache_load, cache_reg, checkbox,
                   file_at_refresh, file_read, fn_arg, fn_opts, fn_out>>

\* what the run that ended had loaded, selected and computed
Shown ==
    [df |-> df, selected |-> selected, df_filtered |-> df_filtered, issues |-> issues,
     tab1 |-> tab1, tab5 |-> tab5]

\* the user flips a checkbox
ToggleCheckbox ==
    /\ SidebarShown
    /\ \E t \in DOMAIN checkbox : checkbox' = [checkbox EXCEPT ![t] = ~checkbox[t]]
    /\ button' = "none"
    /\ prev' = Some(Shown)
    /\ BeginRun("widget")
    /\ UNCHANGED <<file, file_changes, cache_load, cache_reg, selected,
                   file_at_refresh, file_read, fn_arg, fn_opts, fn_out>>

Buttons == {"export_summary", "export_report", "refresh"}

\* the user clicks a sidebar button
ClickButton ==
    /\ SidebarShown
    /\ button' \in Buttons
    /\ prev' = None
    /\ BeginRun("widget")
    /\ UNCHANGED <<file, file_changes, cache_load, cache_reg, selected, checkbox,
                   file_at_refresh, file_read, fn_arg, fn_opts, fn_out>>

\* the file on disk is replaced between two statements of the program
FileChange ==
    /\ pc \in Waiting \cup {"load"}
    /\ file_changes < MaxFileChanges
    /\ file' \in DiskFiles \ {file}
    /\ file_changes' = file_changes + 1
    /\ UNCHANGED <<cache_load, cache_reg, selected, checkbox, button, trigger, pc,
                   df, error_msg, filter_options, df_filtered, issues, report, tab1, tab5, ran, fits,
                   read_file, file_at_refresh, file_read, prev, fn_arg, fn_opts, fn_out>>

Next ==
    \/ RunLoad \/ RunSidebar \/ RunExport \/ RunRefresh \/ RunFilter \/ RunQuality
    \/ RunTab1 \/ RunTabs \/ RunTab5 \/ RunTab6 \/ RunAutoRefresh \/ TimerElapsed
    \/ SelectFilter \/ ToggleCheckbox \/ ClickButton \/ FileChange

Spec == Init /\ [][Next]_vars

\* the positions of a run in progress, lines 549-2393 from top to bottom
Running == {"load", "sidebar", "export", "refresh", "filter", "quality",
            "tab1", "tabs", "tab5", "tab6", "auto"}

\* the script thread moves on: a run in progress reaches its next position, and
\* time.sleep(30) returns (line 2392); every Run action and TimerElapsed is such a
\* step, and each of them is enabled by its position alone
ScriptStep ==
    /\ pc \in Running \cup {"sleep"}
    /\ pc' \in Running \cup Waiting
    /\ pc' # pc

\* the script thread runs every started run on to its end, and a sleep returns;
\* nothing is required of the user or of the file
SpecLive == Init /\ [][Next]_vars /\ WF_pc(ScriptStep)
\* ---------------------------------------------- the functions on their own
\* the session's variables, untouched while a function is applied on its own
SessionAtRest ==
    /\ file = [kind |-> "missing"] /\ file_changes = 0
    /\ cache_load = None
    /\ selected = selected0 /\ checkbox = checkbox0
    /\ button = "none" /\ trigger = "session" /\ pc = "idle"
    /\ df = None /\ error_msg = None /\ filter_options = NoOptions
    /\ df_filtered = None /\ issues = None /\ report = None
    /\ tab1 = None /\ tab5 = None /\ ran = {} /\ fits = 0 /\ read_file = FALSE
    /\ file_at_refresh = None /\ file_read = None /\ prev = None

AccessCols == {"gelas_num", "fokus_num"}
CountCols == {"makna_ngopi", "efek_kopi", "gelas_num"}
\* the values given for default_limit: the default and two that cut the counts short
Limits == {1, 2, default_limit}
GroupCols == {"makna_ngopi", "efek_kopi"}
GroupOperations == {"mean", "count", "sum"}

\* one function is applied, once, to the frame drawn at the start
InitFn ==
    /\ SessionAtRest
    /\ cache_reg = None
    /\ fn_arg \in Frames(MaxRows) \cup {ScenarioFrame, SurveyOfTen}
    /\ fn_opts = NoOptions
    /\ fn_out = NoOut

\* lines 639-642 applied to fn_arg with the options a sidebar can hold for it
FnFilter ==
    /\ fn_out = NoOut
    /\ \E o \in FilterOptions(fn_arg) :
          /\ fn_opts' = o
          /\ fn_out' = [fn |-> "filter", value |-> ApplyFilter(fn_arg, o)]
    /\ UNCHANGED <<session, fn_arg>>

\* calculate_regression(fn_arg) with an empty memo
FnRegression ==
    /\ fn_out = NoOut
    /\ fn_out' = [fn |-> "calculate_regression", value |-> calculate_regression(None, fn_arg)]
    /\ UNCHANGED <<session, fn_arg, fn_opts>>

FnColumnAccess ==
    /\ fn_out = NoOut
    /\ \E col \in AccessCols, op \in Operations, default \in Defaults :
          \* as at lines 664-700, only 'percentage' is given a default of its own
          /\ op # "percentage" => default = Zero
          /\ fn_out' = [fn |-> "safe_column_access", column_name |-> col, operation |-> op,
                     default |-> default, value |-> safe_column_access(fn_arg, col, op, default)]
    /\ UNCHANGED <<session, fn_arg, fn_opts>>

FnValueCounts ==
    /\ fn_out = NoOut
    /\ \E col \in CountCols, limit \in Limits :
          \E v \in safe_value_counts(fn_arg, col, limit) :
             fn_out' = [fn |-> "safe_value_counts", column_name |-> col, limit |-> limit, value |-> v]
    /\ UNCHANGED <<session, fn_arg, fn_opts>>

FnGroupby ==
    /\ fn_out = NoOut
    /\ \E g \in GroupCols, a \in AccessCols, op \in GroupOperations :
          fn_out' = [fn |-> "safe_groupby", group_col |-> g, agg_col |-> a, operation |-> op,
                     value |-> safe_groupby(fn_arg, g, a, op)]
    /\ UNCHANGED <<session, fn_arg, fn_opts>>

FnValidate ==
    /\ fn_out = NoOut
    /\ fn_out' = [fn |-> "validate_data_quality", value |-> validate_data_quality(fn_arg)]
    /\ UNCHANGED <<session, fn_arg, fn_opts>>

\* generate_summary_report(fn_arg, df_filtered), df_filtered as lines 639-642 make it
FnSummary ==
    /\ fn_out = NoOut
    /\ \E o \in FilterOptions(fn_arg) :
          /\ fn_opts' = o
          /\ fn_out' = [fn |-> "generate_summary_report",
                        value |-> generate_summary_report(fn_arg, ApplyFilter(fn_arg, o))]
    /\ UNCHANGED <<session, fn_arg>>

\* lines 638-664: the filter, the quality check of the Filtered Subset and the
\* first metric of the overview tab
FnOverview ==
    /\ fn_out = NoOut
    /\ \E o \in FilterOptions(fn_arg), col \in AccessCols :
          LET d == ApplyFilter(fn_arg, o)
          IN  /\ fn_opts' = o
              /\ fn_out' = [fn |-> "overview", df_filtered |-> d,
                            issues |-> validate_data_quality(d), column_name |-> col,
                            value |-> safe_column_access(d, col, "mean", Zero)]
    /\ UNCHANGED <<session, fn_arg>>

\* the body of load_data on a file whose first row answers efek_kopi with cell
FnLoad ==
    /\ fn_out = NoOut
    /\ \E cell \in EffectCells, r \in RowUniverse :
          fn_out' = [fn |-> "load_data", efek_kopi |-> cell,
                     value |-> load_data_body(Csv(<<[R1 EXCEPT !["efek_kopi"] = cell], r>>, RawCols))]
    /\ UNCHANGED <<session, fn_arg, fn_opts>>

NextFn ==
    \/ FnFilter \/ FnRegression \/ FnColumnAccess \/ FnValueCounts \/ FnGroupby \/ FnValidate
    \/ FnSummary \/ FnLoad \/ FnOverview

SpecFn == InitFn /\ [][NextFn]_vars

\* ------------------------------------- calculate_regression, call after call
MemoFrames == {f \in Frames(MaxMemoRows) : f.cols = AllCols}

InitMemo ==
    /\ SessionAtRest
    /\ cache_reg = None
    /\ fn_arg \in MemoFrames
    /\ fn_opts = NoOptions
    /\ fn_out = NoOut

\* calculate_regression(fn_arg)
MemoCall ==
    /\ fn_out' = [fn |-> "calculate_regression", value |-> calculate_regression(cache_reg, fn_arg)]
    /\ cache_reg' = RegressionMemoAfter(cache_reg, fn_arg)
    /\ UNCHANGED <<file, file_changes, cache_load, selected, checkbox, button, trigger, pc,
                   df, error_msg, filter_options, df_filtered, issues, report, tab1, tab5, ran, fits,
                   read_file, file_at_refresh, file_read, prev, fn_arg, fn_opts>>

\* the caller goes on to another subset
MemoNextArg ==
    /\ fn_out # NoOut
    /\ fn_arg' \in MemoFrames \ {fn_arg}
    /\ fn_out' = NoOut
    /\ UNCHANGED <<session, fn_opts>>

\* st.cache_data.clear(); what the caller got from its last call stays with it
MemoClear ==
    /\ cache_reg # None
    /\ cache_reg' = cache_clear(cache_reg)
    /\ UNCHANGED <<file, file_changes, cache_load, selected, checkbox, button, trigger, pc,
                   df, error_msg, filter_options, df_filtered, issues, report, tab1, tab5, ran, fits,
                   read_file, file_at_refresh, file_read, prev, fn_arg, fn_opts, fn_out>>

NextMemo == MemoCall \/ MemoNextArg \/ MemoClear

SpecMemo == InitMemo /\ [][NextMemo]_vars
\* ================================================================= claims

\* a row meets the conjunction of the non-wildcard selections
Matches(row, opts) == \A c \in DOMAIN opts : opts[c] = Semua \/ row[c] = Some(opts[c])

\* C1: the Filtered Subset holds exactly the Dataset rows that equal the selected
\* value in every non-wildcard field: every row in it meets every constraint
\* and every Dataset row that meets them is in it, in the Dataset's order.
C1_FilterExact ==
    fn_out.fn = "filter" =>
        /\ \A i \in 1..len(fn_out.value) : Matches(fn_out.value.rows[i], fn_opts)
        /\ fn_out.value.rows = SelectSeq(fn_arg.rows, LAMBDA r : Matches(r, fn_opts))
        /\ fn_out.value.cols = fn_arg.cols

C1_Witness ==
    /\ fn_out.fn = "filter"
    /\ \E c \in DOMAIN fn_opts : fn_opts[c] # Semua
    /\ \E c \in DOMAIN fn_opts : fn_opts[c] = Semua
    /\ len(fn_out.value) > 0
    /\ len(fn_out.value) < len(fn_arg)

\* what the tabs got from calculate_regression in this run
RegressionShown ==
    (IF tab1 # None /\ tab1[1].regression # None THEN {tab1[1].regression[1]} ELSE {})
    \cup (IF tab5 # None /\ tab5[1].shown \in {"model", "no model"} THEN {tab5[1].result} ELSE {})

\* C2: whatever filter changes and reruns came before, the result that
\* calculate_regression returns for the current Filtered Subset is the fit of
\* that subset from scratch.
C2_RegressionFollowsSubset ==
    \A r \in RegressionShown : r = calculate_regression_body(df_filtered[1])

\* the rows with a value in both efek_kopi_num and fokus_num
ValidRows(d) ==
    IF "efek_kopi_num" \in d.cols /\ "fokus_num" \in d.cols
    THEN {i \in 1..len(d) : notna(d.rows[i]["efek_kopi_num"]) /\ notna(d.rows[i]["fokus_num"])}
    ELSE {}

PredictorValues(d) == {d.rows[i]["efek_kopi_num"][1] : i \in ValidRows(d)}

IsNoModel(r) == r.model = None /\ r.y_pred = None /\ r.r2 = Zero /\ r.rmse = sqrt(Zero)

\* C3: computed on a subset, calculate_regression returns "no model" when fewer
\* than 2 rows are valid, and a model when at least 2 rows are valid and their
\* predictor values are not all the same.
C3_ModelIffEnoughRows ==
    fn_out.fn = "calculate_regression" =>
        /\ Cardinality(ValidRows(fn_arg)) < 2 => IsNoModel(fn_out.value)
        /\ (Cardinality(ValidRows(fn_arg)) >= 2 /\ Cardinality(PredictorValues(fn_arg)) > 1)
              => fn_out.value.model # None

C3_Witness ==
    /\ fn_out.fn = "calculate_regression"
    /\ Cardinality(ValidRows(fn_arg)) = 1
    /\ len(fn_arg) > 1
    /\ IsNoModel(fn_out.value)

\* C4: when all valid rows have the same predictor value, calculate_regression
\* signals "no model".
C4_ConstantPredictorNoModel ==
    (fn_out.fn = "calculate_regression" /\ Cardinality(PredictorValues(fn_arg)) <= 1)
        => fn_out.value.model = None

\* C5: with the column absent or the subset empty, safe_column_access returns 0
\* for every operation, and safe_value_counts and safe_groupby return an empty
\* mapping.
AbsentOrEmpty(d, cols) == len(d) = 0 \/ \E c \in cols : c \notin d.cols

C5_NeutralValues ==
    /\ (fn_out.fn = "safe_column_access" /\ fn_out.operation \in {"mean", "median", "count", "percentage"}
        /\ AbsentOrEmpty(fn_arg, {fn_out.column_name}))
          => fn_out.value = Zero
    /\ (fn_out.fn = "safe_value_counts" /\ AbsentOrEmpty(fn_arg, {fn_out.column_name}))
          => fn_out.value = EmptySeries
    /\ (fn_out.fn = "safe_groupby" /\ fn_out.operation \in {"mean", "count"}
        /\ AbsentOrEmpty(fn_arg, {fn_out.group_col, fn_out.agg_col}))
          => fn_out.value = EmptySeries

\* C6: load_data returns either (Dataset with efek_kopi_num, no error) or (no
\* Dataset, error message), never a Dataset together with an error, and the
\* message of the file-not-found failure is the one no other failure gives.
C6_LoadOutcome ==
    cache_load # None =>
        LET r == cache_load[1]
        IN  /\ \/ r.df # None /\ r.error_msg = None /\ "efek_kopi_num" \in r.df[1].cols
               \/ r.df = None /\ r.error_msg # None
            /\ (r.error_msg = Some(MsgNotFound)) <=> (file_read[1].kind = "missing")
            /\ r.df # None <=> (file_read[1].kind = "csv" /\ "efek_kopi" \in file_read[1].frame.cols)

C6_Witness ==
    /\ cache_load # None
    /\ cache_load[1].df = None
    /\ file_read[1].kind = "csv"
    /\ pc = "stopped"

C8_MemoAndRefresh ==
    /\ read_file => (trigger = "session" \/ button = "refresh")
    /\ (trigger = "rerun" /\ pc # "load") =>
          /\ file_at_refresh[1].kind = "csv"
          /\ df = Some(WithEfekNum(file_at_refresh[1].frame))

C8_Witness ==
    /\ trigger = "rerun"
    /\ pc = "tab1"
    /\ file_changes = 1
    /\ file = file_at_refresh[1]
    /\ ~read_file

IssueRank(issue) ==
    CASE issue = IssueEmpty -> 0
      [] "missing_columns" \in DOMAIN issue -> 1
      [] "null_count" \in DOMAIN issue /\ issue.col = "efek_kopi_num" -> 2
      [] "null_count" \in DOMAIN issue /\ issue.col = "fokus_num" -> 3
      [] OTHER -> 4

\* the entries of required_columns that are absent from d, as a set
AbsentRequired(d) == {c \in {"efek_kopi_num", "fokus_num", "gelas_num", "durasi_num"} : c \notin d.cols}

\* C9: the issues come in the order empty subset, missing required columns, nulls
\* of efek_kopi_num, nulls of fokus_num, each at most once; an empty subset
\* yields the empty-subset issue and nothing else.
C9_IssueOrder ==
    fn_out.fn = "validate_data_quality" =>
        LET is == fn_out.value
        IN  /\ \A i \in 1..Len(is) : IssueRank(is[i]) \in 0..3
            /\ \A i, j \in 1..Len(is) : i < j => IssueRank(is[i]) < IssueRank(is[j])
            /\ len(fn_arg) = 0 => is = <<IssueEmpty>>
            /\ len(fn_arg) > 0 =>
                  /\ \A i \in 1..Len(is) : is[i] # IssueEmpty
                  /\ (\E i \in 1..Len(is) : IssueRank(is[i]) = 1) <=> AbsentRequired(fn_arg) # {}
                  /\ \A i \in 1..Len(is) : IssueRank(is[i]) = 1 =>
                        {is[i].missing_columns[k] : k \in 1..Len(is[i].missing_columns)}
                            = AbsentRequired(fn_arg)
                  /\ \A i \in 1..Len(is) : IssueRank(is[i]) \in {2, 3} =>
                        /\ is[i].col \in fn_arg.cols
                        /\ is[i].null_count > 0
                        /\ is[i].null_count
                              = len(fn_arg) - Len(dropna(fn_arg, is[i].col))

C9_Witness ==
    /\ fn_out.fn = "validate_data_quality"
    /\ Len(fn_out.value) = 3

\* C10: applied to an empty Filtered Subset, calculate_regression returns "no
\* model", whatever it was called with before.
C10_EmptySubsetNoModel ==
    (fn_out.fn = "calculate_regression" /\ len(fn_arg) = 0) => IsNoModel(fn_out.value)

\* the rows of d that meet the selections, selected one by one
MatchingRows(d, opts) == SelectSeq(d.rows, LAMBDA r : Matches(r, opts))

\* the mean of the non-null values of a column over a sequence of rows
MeanOver(rows, col) ==
    LET vals == SelectSeq([i \in 1..Len(rows) |-> rows[i][col]], notna)
    IN  IF vals = <<>> THEN NaN
        ELSE Frac(SumSeq([i \in 1..Len(vals) |-> vals[i][1]]), Len(vals))

\* a key metric: 0 without the column or without rows, else the mean
ExpectedMetric(cols, rows, col) ==
    IF col \notin cols \/ rows = <<>> THEN Zero ELSE MeanOver(rows, col)

\* C11: the report counts the rows of the Dataset and of the Filtered Subset,
\* carries the Quality Report of the Filtered Subset, and its four key metrics
\* are the means of gelas_num, pengeluaran_num, durasi_num and fokus_num over the
\* Filtered Subset; for an empty Filtered Subset the four are 0 and the first
\* issue is the empty-subset issue.
C11_SummaryReport ==
    fn_out.fn = "generate_summary_report" =>
        LET r == fn_out.value
            rows == MatchingRows(fn_arg, fn_opts)
            sub == [cols |-> fn_arg.cols, rows |-> rows]
        IN  /\ r.total_respondents = Len(fn_arg.rows)
            /\ r.filtered_respondents = Len(rows)
            /\ r.data_quality_issues = validate_data_quality(sub)
            /\ r.key_metrics.avg_coffee_consumption = ExpectedMetric(fn_arg.cols, rows, "gelas_num")
            /\ r.key_metrics.avg_spending = ExpectedMetric(fn_arg.cols, rows, "pengeluaran_num")
            /\ r.key_metrics.avg_study_duration = ExpectedMetric(fn_arg.cols, rows, "durasi_num")
            /\ r.key_metrics.avg_focus_improvement = ExpectedMetric(fn_arg.cols, rows, "fokus_num")
            /\ rows = <<>> =>
                  /\ \A k \in DOMAIN r.key_metrics : r.key_metrics[k] = Zero
                  /\ r.data_quality_issues[1] = IssueEmpty

C11_Witness ==
    /\ fn_out.fn = "generate_summary_report"
    /\ len(fn_arg) > 1
    /\ fn_out.value.filtered_respondents = 0
    /\ fn_out.value.key_metrics.avg_spending = Zero
    /\ fn_out.value.data_quality_issues = <<IssueEmpty>>

\* C12: the key metrics written into the exported report are the means over the
\* rows of the Dataset that match the filter selections active in that run.
C12_ReportFollowsFilter ==
    report # None =>
        LET rows == MatchingRows(df[1], filter_options)
            m == report[1].key_metrics
        IN  /\ report[1].total_respondents = len(df[1])
            /\ m.avg_coffee_consumption = ExpectedMetric(df[1].cols, rows, "gelas_num")
            /\ m.avg_spending = ExpectedMetric(df[1].cols, rows, "pengeluaran_num")
            /\ m.avg_study_duration = ExpectedMetric(df[1].cols, rows, "durasi_num")
            /\ m.avg_focus_improvement = ExpectedMetric(df[1].cols, rows, "fokus_num")

\* C13: the load encodes 'Lebih fokus', 'Lebih semangat', 'Tahan ngantuk',
\* 'Biasa aja', 'Jadi cemas' as 3, 2, 1, 0, -1; no two labels share a number, so
\* the number gives the label back; any other answer becomes a null
\* efek_kopi_num and the load succeeds all the same.
C13_EffectEncoding ==
    fn_out.fn = "load_data" =>
        /\ fn_out.value.error_msg = None
        /\ fn_out.value.df # None
        /\ LET row == fn_out.value.df[1].rows[1]
               cell == fn_out.efek_kopi
               num == row["efek_kopi_num"]
           IN  /\ row["efek_kopi"] = cell
               /\ cell = Some("Lebih fokus") => num = Some(3)
               /\ cell = Some("Lebih semangat") => num = Some(2)
               /\ cell = Some("Tahan ngantuk") => num = Some(1)
               /\ cell = Some("Biasa aja") => num = Some(0)
               /\ cell = Some("Jadi cemas") => num = Some(-1)
               /\ cell \in {Some("Lainnya"), NA} => num = NA
               /\ notna(num) =>
                     \A l \in DOMAIN efek_mapping : efek_mapping[l] = num[1] => cell = Some(l)

C13_Witness ==
    /\ fn_out.fn = "load_data"
    /\ fn_out.efek_kopi = Some("Lainnya")
    /\ fn_out.value.df # None
    /\ fn_out.value.df[1].rows[1]["efek_kopi_num"] = NA
    /\ notna(fn_out.value.df[1].rows[2]["efek_kopi_num"])

\* the position of the first row of d whose column holds v
FirstRow(d, col, v) == CHOOSE i \in 1..len(d) : d.rows[i][col] = Some(v) /\ \A j \in 1..(i - 1) : d.rows[j][col] # Some(v)

\* the number of rows of d whose column holds v
RowsWith(d, col, v) == Cardinality({i \in 1..len(d) : d.rows[i][col] = Some(v)})

\* the entries are the counts of distinct non-null values of the column, the
\* most frequent first, cut after limit entries
TopCounts(d, col, limit, items) ==
    LET n == Len(items)
        distinct == DistinctValues(d, col)
    IN  /\ n <= limit
        /\ n = (IF Cardinality(distinct) < limit THEN Cardinality(distinct) ELSE limit)
        /\ \A i \in 1..n : items[i][1] \in distinct /\ items[i][2] = RowsWith(d, col, items[i][1])
        /\ \A i, j \in 1..n : i < j => items[i][1] # items[j][1] /\ items[i][2] >= items[j][2]
        /\ \A v \in distinct :
              (\A i \in 1..n : items[i][1] # v) => \A i \in 1..n : items[i][2] >= RowsWith(d, col, v)

\* values of equal count come in the order of their first rows, in the
\* entries and at the cut
TiesByFirstRow(d, col, items) ==
    /\ \A i, j \in 1..Len(items) :
          (i < j /\ items[i][2] = items[j][2])
              => FirstRow(d, col, items[i][1]) < FirstRow(d, col, items[j][1])
    /\ \A v \in DistinctValues(d, col) :
          (\A i \in 1..Len(items) : items[i][1] # v) =>
              \A i \in 1..Len(items) :
                  items[i][2] = RowsWith(d, col, v) => FirstRow(d, col, items[i][1]) < FirstRow(d, col, v)

ValidX(d) == LET idx == SelectSeq([i \in 1..len(d) |-> i], LAMBDA i : i \in ValidRows(d))
             IN  [k \in 1..Len(idx) |-> FInt(d.rows[idx[k]]["efek_kopi_num"][1])]
ValidY(d) == LET idx == SelectSeq([i \in 1..len(d) |-> i], LAMBDA i : i \in ValidRows(d))
             IN  [k \in 1..Len(idx) |-> FInt(d.rows[idx[k]]["fokus_num"][1])]

FMean(s) == FDiv(FSum(s), FInt(Len(s)))
\* the covariance of two samples of the same length
Cov(s, t) ==
    FMean([i \in 1..Len(s) |-> FMul(FSub(s[i], FMean(s)), FSub(t[i], FMean(t)))])

FLess(p, q) == ~FLeq(q, p)

\* C15: when a model is returned for a subset whose predictor is not constant,
\* R2 lies in [0, 1] and the RMSE is at least 0.
C15_R2Range ==
    (/\ fn_out.fn = "calculate_regression"
     /\ fn_out.value.model # None
     /\ Cardinality(PredictorValues(fn_arg)) > 1) =>
        /\ FLeq(Zero, fn_out.value.r2)
        /\ FLeq(fn_out.value.r2, FInt(1))
        /\ FLeq(Zero, fn_out.value.rmse.radicand)

C15_Witness ==
    /\ fn_out.fn = "calculate_regression"
    /\ fn_out.value.model # None
    /\ Cardinality(ValidRows(fn_arg)) = 3
    /\ FLess(Zero, fn_out.value.r2)
    /\ FLess(fn_out.value.r2, FInt(1))
    /\ FLess(Zero, fn_out.value.rmse.radicand)

\* C16: the fitted line has slope cov(x, y) / var(x) and intercept
\* mean(y) - slope * mean(x) over the valid rows; for x = [-1, 0, 1, 2, 3] and
\* y = [20, 34, 46, 57, 69] the slope is within 11.9 to 12.1, the intercept
\* within 33 to 35 and R2 above 0.99.
C16_ClosedFormOLS ==
    (/\ fn_out.fn = "calculate_regression"
     /\ fn_out.value.model # None
     /\ Cardinality(PredictorValues(fn_arg)) > 1) =>
        LET x == ValidX(fn_arg)
            y == ValidY(fn_arg)
            slope == FDiv(Cov(x, y), Cov(x, x))
            model == fn_out.value.model[1]
        IN  /\ model.coef_ = slope
            /\ model.intercept_ = FSub(FMean(y), FMul(slope, FMean(x)))
            /\ fn_arg = ScenarioFrame =>
                  /\ FLeq(Frac(119, 10), model.coef_) /\ FLeq(model.coef_, Frac(121, 10))
                  /\ FLeq(FInt(33), model.intercept_) /\ FLeq(model.intercept_, FInt(35))
                  /\ FLess(Frac(99, 100), fn_out.value.r2)

C16_Witness ==
    /\ fn_out.fn = "calculate_regression"
    /\ fn_arg = ScenarioFrame
    /\ fn_out.value.model # None
    /\ fn_out.value.model[1].coef_ = Frac(121, 10)
    /\ fn_out.value.model[1].intercept_ = Frac(331, 10)

\* C17: two calls of calculate_regression on the same subset, whatever happened
\* between them, return the same slope, intercept, R2 and RMSE.
C17_SameSubsetSameResult ==
    [][(fn_out # NoOut /\ fn_out' # NoOut /\ fn_arg' = fn_arg) =>
          /\ fn_out'.value.model = fn_out.value.model
          /\ fn_out'.value.r2 = fn_out.value.r2
          /\ fn_out'.value.rmse = fn_out.value.rmse]_vars

\* C18: a run that finds a memoized regression result does not execute the fit,
\* no run executes it more than once, however many calls it makes, and every
\* result the tabs show is the memoized one.
C18_NoRecompute ==
    [][/\ fits' <= 1
       /\ (cache_reg # None /\ cache_reg' # None) => fits' <= fits
       /\ \A r \in RegressionShown' : cache_reg' = Some(r)]_vars

C18_Witness ==
    /\ trigger \in {"widget", "auto"}
    /\ pc = "tab6"
    /\ fits = 0
    /\ tab1 # None /\ tab1[1].regression # None
    /\ tab5 # None /\ tab5[1].shown = "model"
    /\ cache_reg = Some(tab5[1].result)

\* C19: each selector the sidebar has rendered offers 'Semua' first and then
\* the distinct non-null values of its field in the Dataset, each once, in
\* ascending order, whatever the selectors are set to.
C19_SelectorOptions ==
    ("sidebar" \in ran /\ df # None) =>
        \A c \in CatCols \cap df[1].cols :
            LET o == selected[c].options
            IN  /\ Len(o) >= 1 /\ o[1] = Semua
                /\ \A i, j \in 2..Len(o) : i < j => StrRank(o[i]) < StrRank(o[j])
                /\ {o[i] : i \in 2..Len(o)}
                      = {df[1].rows[i][c][1] : i \in {j \in 1..len(df[1]) : notna(df[1].rows[j][c])}}
                /\ filter_options[c] \in {o[i] : i \in 1..Len(o)}

C19_Witness ==
    /\ "sidebar" \in ran /\ df # None
    /\ trigger = "widget"
    /\ selected["makna_ngopi"].value = "Gaya hidup"
    /\ selected["makna_ngopi"].options = <<"Semua", "Gaya hidup", "Sekedar kebiasaan">>
    /\ selected["efek_kopi"].options = <<"Semua", "Jadi cemas", "Lainnya", "Lebih fokus">>
    /\ len(df[1]) = 4 /\ df[1].rows[4]["efek_kopi"] = Some("Lebih fokus")

RECURSIVE IsSubSeq(_, _)
\* s is t with some of its members left out
IsSubSeq(s, t) ==
    IF s = <<>> THEN TRUE
    ELSE IF t = <<>> THEN FALSE
    ELSE IF Head(s) = Head(t) THEN IsSubSeq(Tail(s), Tail(t))
    ELSE IsSubSeq(s, Tail(t))

\* the rows of a frame, the cells of the columns cols only
RowsOn(d, cols) == [i \in 1..len(d) |-> [c \in cols |-> d.rows[i][c]]]

ManualRefresh == pc = "refresh" /\ button = "refresh"

\* C20: once loaded, the Dataset of a run is changed by no stage of the run;
\* the loaded Dataset is replaced by the manual refresh only and every run works
\* on it; the rows of the Filtered Subset are rows of the Dataset in the
\* Dataset's order.
C20_DatasetImmutable ==
    [][/\ (df # None /\ pc' # "load" /\ ~ManualRefresh) => df' = df
       /\ (cache_load # None /\ cache_load' # cache_load) => ManualRefresh
       /\ (df' # None /\ cache_load' # None) => df' = cache_load'[1].df
       /\ (df_filtered' # None /\ df' # None) =>
             /\ df'[1].cols \subseteq df_filtered'[1].cols
             /\ IsSubSeq(RowsOn(df_filtered'[1], AllCols), RowsOn(df'[1], AllCols))]_vars

C20_Witness ==
    /\ pc = "tab5"
    /\ trigger = "widget"
    /\ \A c \in DOMAIN filter_options : filter_options[c] = Semua
    /\ len(df[1]) = 4
    /\ "kat_pengeluaran" \in df_filtered[1].cols
    /\ "kat_pengeluaran" \notin df[1].cols
    /\ df = cache_load[1].df

\* the slope, intercept, R2 and RMSE a run showed
Coefficients(t1, t5) ==
    <<IF t1 # None THEN t1[1].regression ELSE None,
      IF t1 # None THEN Some(t1[1].r2_value) ELSE None,
      IF t5 # None /\ t5[1].shown \in {"model", "no model"} THEN Some(t5[1].result) ELSE None,
      IF t5 # None /\ t5[1].shown = "model" THEN Some(<<t5[1].slope, t5[1].intercept>>) ELSE None>>

\* C21: the run that a change of a display toggle starts ends with the same
\* Dataset, filter selections, Filtered Subset, Quality Report and regression
\* coefficients as the run before it.
C21_TogglesOnlyGateViews ==
    (prev # None /\ pc \in Waiting) =>
        /\ df = prev[1].df
        /\ selected = prev[1].selected
        /\ df_filtered = prev[1].df_filtered
        /\ issues = prev[1].issues
        /\ Coefficients(tab1, tab5) = Coefficients(prev[1].tab1, prev[1].tab5)

C21_Witness ==
    /\ prev # None /\ pc = "idle"
    /\ tab5 # None /\ tab5[1].shown = "model"
    /\ tab5[1].statistics_view
    /\ ~prev[1].tab5[1].statistics_view
    /\ selected["makna_ngopi"].value # Semua
    /\ len(df_filtered[1]) < len(df[1])

\* C22: in every run the Filtered Subset is computed before any Safe Accessor,
\* the Quality Validator, the Regression Module or the Summary Generator is
\* invoked, and a run that renders to its end has made the whole pass.
C22_FilterBeforeConsumers ==
    /\ (ran \cap {"accessors", "quality", "regression", "summary"}) # {} => "filter" \in ran
    /\ pc \in {"idle", "sleep"} => {"sidebar", "filter", "quality", "accessors", "render"} \subseteq ran

C24_RegressionOnCurrentSubset ==
    (tab5 # None /\ tab5[1].shown = "model") =>
        LET d == df_filtered[1]
            idx == ValidIdx(d)
            xs == [k \in 1..Len(idx) |-> d.rows[idx[k]]["efek_kopi_num"][1]]
            ys == [k \in 1..Len(idx) |-> d.rows[idx[k]]["fokus_num"][1]]
            shown == [coef_ |-> tab5[1].slope, intercept_ |-> tab5[1].intercept]
        IN  /\ shown = Fit(xs, ys)
            /\ Len(tab5[1].y_pred) = Len(idx)
            /\ tab5[1].y_pred = Predict(shown, xs)

\* the selections that keep the respondents who said 'Lebih fokus'
OnlyLebihFokus == [makna_ngopi |-> Semua, cara_dapat_kopi |-> Semua, efek_kopi |-> "Lebih fokus"]

\* C25: over a non-empty Filtered Subset with a non-null value in the column, the
\* 'mean' of safe_column_access is the sum of the non-null values divided by their
\* number; filtering the ten respondents on efek_kopi = 'Lebih fokus' leaves
\* exactly three rows, no missing-column issue, and the mean of their gelas_num
C25_MeanOverSubset ==
    fn_out.fn = "overview" =>
        LET rows == MatchingRows(fn_arg, fn_opts)
            col == fn_out.column_name
            cells == SelectSeq([i \in 1..Len(rows) |-> rows[i][col]], notna)
            total == SumSeq([i \in 1..Len(cells) |-> cells[i][1]])
        IN  /\ (col \in fn_arg.cols /\ cells # <<>>) =>
                  /\ fn_out.value[2] > 0
                  /\ fn_out.value[1] * Len(cells) = total * fn_out.value[2]
            /\ (fn_arg = SurveyOfTen /\ fn_opts = OnlyLebihFokus) =>
                  /\ len(fn_out.df_filtered) = 3
                  /\ \A k \in 1..Len(fn_out.issues) : "missing_columns" \notin DOMAIN fn_out.issues[k]
                  /\ col = "gelas_num" => fn_out.value = <<7, 3>>

C25_Witness ==
    /\ fn_out.fn = "overview"
    /\ fn_arg = SurveyOfTen /\ fn_opts = OnlyLebihFokus
    /\ fn_out.column_name = "gelas_num"
    /\ len(fn_out.df_filtered) = 3
    /\ fn_out.value = <<7, 3>>

RECURSIVE FilterInOrder(_, _, _)
\* the constraints of the columns in order, applied one after the other
FilterInOrder(d, opts, order) ==
    IF order = <<>> THEN d
    ELSE FilterInOrder(FilterStep(d, Head(order), opts[Head(order)]), opts, Tail(order))

\* the columns a selection constrains
Constrained(opts) == {c \in DOMAIN opts : opts[c] # Semua}

\* C26: a selector left on 'Semua' constrains nothing, so with every selector on
\* 'Semua' the Filtered Subset is the Dataset row for row; the subset is the same
\* in whatever order the constraints are applied, and applying them again to the
\* subset leaves it as it is
C26_WildcardsAndOrder ==
    fn_out.fn = "filter" =>
        /\ Constrained(fn_opts) = {} => fn_out.value = fn_arg
        /\ \A order \in Orderings(Constrained(fn_opts)) :
              /\ FilterInOrder(fn_arg, fn_opts, order) = fn_out.value
              /\ FilterInOrder(fn_out.value, fn_opts, order) = fn_out.value

C26_Witness ==
    /\ fn_out.fn = "filter"
    /\ Cardinality(Constrained(fn_opts)) = 2
    /\ len(fn_out.value) > 0 /\ len(fn_out.value) < len(fn_arg)
    /\ \E order \in Orderings(Constrained(fn_opts)) :
          len(FilterStep(fn_arg, order[1], fn_opts[order[1]]))
              # len(FilterStep(fn_arg, order[2], fn_opts[order[2]]))

\* the memo of load_data holds a failed load
LoadFailed == cache_load # None /\ cache_load[1].df = None

\* C27: a failed load is memoized like a successful one: a run that stops at the
\* load check leaves the failure in the memo; every later run gets that failure
\* from the memo, without reading the file, and stops at the load check, before
\* the sidebar and its refresh button; the memo keeps the failure and no Dataset
\* is loaded again, whatever the user does and whatever happens to the file
C27_FailedLoadSticks ==
    /\ [](pc = "stopped" =>
            LoadFailed /\ df = None /\ error_msg = cache_load[1].error_msg)
    /\ [](LoadFailed => df = None /\ pc \in {"load", "stopped", "filter", "crashed"})
    /\ [][LoadFailed => cache_load' = cache_load]_vars
    /\ [][(LoadFailed /\ pc = "load" /\ pc' # "load") =>
            /\ pc' = "stopped"
            /\ ~read_file' /\ file_read' = file_read
            /\ error_msg' = cache_load[1].error_msg]_vars

C27_Witness ==
    /\ LoadFailed /\ pc = "stopped"
    /\ trigger = "widget" /\ ~read_file
    /\ file_at_refresh # None

\* C28: whenever the prediction tab computes the diagnostics of a model, both
\* divisors are nonzero: the degrees of freedom n - 2 are at least 1 and the sum
\* of squares of the predictor about its mean is positive
C28_DiagnosticsDivisors ==
    (tab5 # None /\ tab5[1].shown = "model") =>
        /\ tab5[1].dof >= 1
        /\ tab5[1].x_ss[1] > 0

\* a float that is a number: a fraction with a nonzero denominator, neither None nor nan
IsNumber(v) == v # None /\ v # NaN /\ Len(v) = 2 /\ v[2] # 0

\* C29: every value safe_column_access returns for one of its operations, and
\* every key metric of the summary report, is a defined number; for a non-empty
\* subset whose column is present but all null, 'mean' and 'median' return 0
C29_MetricsAreNumbers ==
    /\ (fn_out.fn = "safe_column_access"
            /\ fn_out.operation \in {"mean", "median", "count", "percentage"}) =>
          /\ IsNumber(fn_out.value)
          /\ (/\ fn_out.operation \in {"mean", "median"}
              /\ fn_out.column_name \in fn_arg.cols /\ len(fn_arg) > 0
              /\ dropna(fn_arg, fn_out.column_name) = <<>>) => fn_out.value = Zero
    /\ fn_out.fn = "generate_summary_report" =>
          \A k \in DOMAIN fn_out.value.key_metrics : IsNumber(fn_out.value.key_metrics[k])

\* C30: for an operation name that is not supported, on a non-empty subset that
\* has the columns, safe_column_access returns the default 0 and safe_groupby an
\* empty mapping, never an absent value
C30_UnsupportedOperation ==
    /\ (fn_out.fn = "safe_column_access"
            /\ fn_out.operation \notin {"mean", "median", "count", "percentage"}
            /\ fn_out.column_name \in fn_arg.cols /\ len(fn_arg) > 0) =>
          fn_out.value # None /\ fn_out.value = fn_out.default
    /\ (fn_out.fn = "safe_groupby"
            /\ fn_out.operation \notin {"mean", "count"}
            /\ {fn_out.group_col, fn_out.agg_col} \subseteq fn_arg.cols /\ len(fn_arg) > 0) =>
          fn_out.value # None /\ fn_out.value = EmptySeries
====
